---- MODULE Spec2Model ----
(***************************************************************************)
(* Model of app.py: a Streamlit page with four button handlers.            *)
(*   - "Verificar Servidor de IA"  -> check_health_server                  *)
(*   - "Testar acesso ao S3"       -> check_s3_access                      *)
(*   - "Enviar para S3"            -> the per-file upload loop             *)
(*   - "Enviar"                    -> perguntar_backend and the rendering  *)
(* The backend and the object storage are the environment: every call to   *)
(* them returns or raises nondeterministically.                            *)
(*                                                                         *)
(* Text is modelled as a sequence of one-character strings where the code  *)
(* looks inside it (the question, file names) and as a tuple of parts,     *)
(* the literal prefix first, where the code only builds it (f-strings).    *)
(***************************************************************************)
EXTENDS Integers, Sequences, FiniteSets, TLC

\* ------------------------------------------------------------- bounds
MaxFiles == 2      \* files in one selection of the uploader
MaxQLen == 2       \* characters of the question
MaxUuid == 3       \* identifiers uuid4 hands out in one behaviour

\* ------------------------------------------------------------- config
BACKEND_PORT == "8000"
POD_ID == "i1q8dnudt5raii"
BACKEND_URL == <<"https://", POD_ID, "-", BACKEND_PORT, ".proxy.runpod.net/">>
BUCKET_NAME == "rag-teste-bnu"
PREFIX_BASE == "uploads"
HEALTH_TIMEOUT == 10
CHAT_TIMEOUT == 300
K_MIN == 1
K_DEFAULT == 4

\* ------------------------------------------------------------- text
Last(s) == s[Len(s)]

SeqsUpTo(S, n) == UNION {[1..m -> S] : m \in 0..n}

Whitespace == {" "}

RECURSIVE LStrip(_)
LStrip(s) ==
    IF s # <<>> /\ Head(s) \in Whitespace THEN LStrip(Tail(s)) ELSE s

RECURSIVE RStrip(_)
RStrip(s) ==
    IF s # <<>> /\ Last(s) \in Whitespace
    THEN RStrip(SubSeq(s, 1, Len(s) - 1))
    ELSE s

\* Variant of Strip: lstrip() in place of strip()
StripLeadingOnly(s) == LStrip(s)

\* str.strip()
Strip(s) == RStrip(LStrip(s))

\* sep in s
Contains(s, sep) == \E j \in 1..Len(s) : s[j] = sep

\* s.split(sep): the pieces between the separators, empty pieces kept
RECURSIVE SplitFrom(_, _, _)
SplitFrom(s, sep, piece) ==
    IF s = <<>> THEN <<piece>>
    ELSE IF Head(s) = sep THEN <<piece>> \o SplitFrom(Tail(s), sep, <<>>)
    ELSE SplitFrom(Tail(s), sep, Append(piece, Head(s)))

Split(s, sep) == SplitFrom(s, sep, <<>>)

\* ------------------------------------------------------------- JSON values
\* One record shape for every value: its JSON type, its text for scalars
\* and arrays, and its members for an object (Absent where it has none).
Keys == {"answer", "resposta", "raw", "sources", "fontes"}

Absent == [type |-> "absent", s |-> ""]

NoFields == [key \in Keys |-> Absent]

JVal(t, s) == [type |-> t, s |-> s, fields |-> NoFields]

JObj(f) == [type |-> "object", s |-> "", fields |-> f]

None == JVal("null", "null")

\* Python truth value of a decoded JSON value
Truthy(v) ==
    CASE v.type = "object" -> \E key \in Keys : v.fields[key] # Absent
      [] v.type = "array" -> v.s # "[]"
      [] v.type = "string" -> v.s # ""
      [] v.type = "number" -> v.s # "0"
      [] v.type = "bool" -> v.s = "true"
      [] OTHER -> FALSE

\* Variant of Or: "a if a is not None else b"
OrIfNotNone(a, b) == IF a # JVal("null", "null") THEN a ELSE b

\* a or b
Or(a, b) == IF Truthy(a) THEN a ELSE b

\* dict.get(key): None when the key is missing
Get(d, key) ==
    IF d.fields[key] = Absent THEN None
    ELSE JVal(d.fields[key].type, d.fields[key].s)

\* Member values the backend may send under each key: missing, falsy, truthy.
MemberValues(key) ==
    IF key \in {"sources", "fontes"}
    THEN {Absent, [type |-> "array", s |-> "[]"], [type |-> "array", s |-> key]}
    ELSE {Absent, [type |-> "string", s |-> ""], [type |-> "string", s |-> key]}

JsonObjects == {JObj(f) : f \in {g \in [Keys -> UNION {MemberValues(key) : key \in Keys}] :
                                   \A key \in Keys : g[key] \in MemberValues(key)}}

JsonNonObjects ==
    {JVal("array", "[]"), JVal("array", "[1]"), JVal("string", ""),
     JVal("string", "oi"), JVal("number", "0"), JVal("number", "7"),
     JVal("bool", "true"), JVal("bool", "false"), None}

\* ------------------------------------------------------------- environment
\* An HTTP response body: its text, and the value it decodes to when it is JSON.
JsonBody(v) == [text |-> "<json>", parses |-> TRUE, json |-> v]

TextBody(t) == [text |-> t, parses |-> FALSE, json |-> None]

Bodies == {JsonBody(v) : v \in JsonObjects \cup JsonNonObjects}
              \cup {TextBody(""), TextBody("<html>")}

Statuses == {200, 204, 304, 404, 500}

Response(status, body) == [kind |-> "response", status |-> status, body |-> body]

Raise(exc) == [kind |-> "raise", exc |-> exc]

Return == [kind |-> "return"]

\* Classes of the exceptions the libraries raise, each with its base classes.
Mro(exc) ==
    CASE exc = "HTTPError" -> {"HTTPError", "RequestException", "OSError", "Exception"}
      [] exc = "ConnectionError" -> {"ConnectionError", "RequestException", "OSError", "Exception"}
      [] exc = "Timeout" -> {"Timeout", "RequestException", "OSError", "Exception"}
      [] exc = "NoCredentialsError" -> {"NoCredentialsError", "BotoCoreError", "Exception"}
      [] exc = "EndpointConnectionError" ->
             {"EndpointConnectionError", "HTTPClientError", "BotoCoreError", "Exception"}
      [] exc = "ClientError" -> {"ClientError", "Exception"}
      [] exc = "ReadTimeoutError" ->
             {"ReadTimeoutError", "HTTPClientError", "BotoCoreError", "Exception"}
      [] exc = "ValueError" -> {"ValueError", "Exception"}
      [] exc = "AttributeError" -> {"AttributeError", "Exception"}
      [] OTHER -> {exc, "Exception"}

\* isinstance(exc, cls)
IsInstance(exc, cls) == cls \in Mro(exc)

\* The first except clause, in source order, that catches exc; 0 when none does.
FirstHandler(exc, clauses) ==
    IF \E j \in 1..Len(clauses) : IsInstance(exc, clauses[j])
    THEN CHOOSE j \in 1..Len(clauses) :
            /\ IsInstance(exc, clauses[j])
            /\ \A h \in 1..(j - 1) : ~IsInstance(exc, clauses[h])
    ELSE 0

TransportFailures == {"ConnectionError", "Timeout"}

\* Every body with a 200; the other statuses with the bodies they come with.
OtherBodies == {TextBody(""), TextBody("<html>"), JsonBody(JObj(NoFields))}

HttpOutcomes ==
    {Response(200, b) : b \in Bodies}
        \cup {Response(st, b) : st \in Statuses \ {200}, b \in OtherBodies}
        \cup {Raise(exc) : exc \in TransportFailures}

S3Failures == {"NoCredentialsError", "EndpointConnectionError", "ClientError",
               "ReadTimeoutError"}

S3Outcomes == {Return} \cup {Raise(exc) : exc \in S3Failures}

\* ------------------------------------------------------------- functions
\* The value a function hands back, or the exception that leaves it; with
\* the calls it made to the backend or the storage, in order.
Returned(val, made) == [raised |-> "none", val |-> val, calls |-> made]

Raised(exc, made) == [raised |-> exc, val |-> None, calls |-> made]

\* uuid4().hex: the n-th identifier generated, 32 hexadecimal digits
Uuid4Hex(n) == [hex |-> n, digits |-> 32]

\* Variant of s3_safe_key: split(".")[1] in place of split(".")[-1]
s3_safe_key_first_piece(name, hex) ==
    LET ext == IF Contains(name, ".") THEN <<".">> \o Split(name, ".")[2] ELSE <<>>
    IN  <<hex>> \o ext

s3_safe_key(name, hex) ==
    LET ext == IF Contains(name, ".") THEN <<".">> \o Last(Split(name, ".")) ELSE <<>>
    IN  <<hex>> \o ext

\* Variant of check_health_server: resp.ok in place of status_code == 200
check_health_server_any_2xx(outcome) ==
    LET call == [api |-> "requests.get", url |-> BACKEND_URL \o <<"/health">>,
                 timeout |-> HEALTH_TIMEOUT, out |-> outcome]
    IN  IF outcome.kind = "response"
        THEN Returned(200 <= outcome.status /\ outcome.status < 300, <<call>>)
        ELSE IF FirstHandler(outcome.exc, <<"RequestException">>) = 1
             THEN Returned(FALSE, <<call>>)
             ELSE Raised(outcome.exc, <<call>>)

check_health_server(outcome) ==
    LET call == [api |-> "requests.get", url |-> BACKEND_URL \o <<"/health">>,
                 timeout |-> HEALTH_TIMEOUT, out |-> outcome]
    IN  IF outcome.kind = "response"
        THEN Returned(outcome.status = 200, <<call>>)
        ELSE IF FirstHandler(outcome.exc, <<"RequestException">>) = 1
             THEN Returned(FALSE, <<call>>)
             ELSE Raised(outcome.exc, <<call>>)

\* Variant of S3AccessClauses: no catch-all clause
S3AccessClausesNoCatchAll ==
    <<"NoCredentialsError", "EndpointConnectionError", "ClientError">>

\* The except clauses of check_s3_access, in source order
S3AccessClauses ==
    <<"NoCredentialsError", "EndpointConnectionError", "ClientError", "Exception">>

check_s3_access(outcome) ==
    LET call == [api |-> "head_bucket", bucket |-> BUCKET_NAME, out |-> outcome]
        h == FirstHandler(outcome.exc, S3AccessClauses)
    IN  IF outcome.kind = "return"
        THEN Returned(<<TRUE, <<"Acesso ao bucket OK.">>>>, <<call>>)
        ELSE CASE h = 1 -> Returned(<<FALSE, <<"Credenciais AWS ausentes.">>>>, <<call>>)
               [] h = 2 -> Returned(<<FALSE, <<"Falha ao conectar no endpoint S3", outcome.exc>>>>,
                                    <<call>>)
               [] h = 3 -> Returned(<<FALSE, <<"ClientError ao acessar bucket: ", outcome.exc>>>>,
                                    <<call>>)
               [] h = 4 -> Returned(<<FALSE, <<"Erro inesperado no S3: ", outcome.exc>>>>,
                                    <<call>>)
               [] OTHER -> Raised(outcome.exc, <<call>>)

\* Variant of RaiseForStatus: server errors only
RaiseForStatus5xxOnly(status) == 500 <= status /\ status < 600

\* resp.raise_for_status(): HTTPError for a 4xx or a 5xx
RaiseForStatus(status) == 400 <= status /\ status < 600

\* Variant of PerguntaVazia: "not pergunta" alone
PerguntaVaziaNoStrip(pergunta) == pergunta = <<>>

\* not pergunta or not pergunta.strip()
PerguntaVazia(pergunta) == pergunta = <<>> \/ Strip(pergunta) = <<>>

perguntar_backend(pergunta, k, namespace, documentos, outcome) ==
    IF PerguntaVazia(pergunta)
    THEN Returned([ok |-> FALSE, error |-> <<"Pergunta vazia.">>], <<>>)
    ELSE
      LET payload == [question |-> Strip(pergunta), k |-> k]
                        @@ (IF Truthy(namespace) THEN [namespace |-> namespace] ELSE <<>>)
                        @@ (IF Truthy(documentos) THEN [documents |-> documentos] ELSE <<>>)
          call == [api |-> "requests.post", url |-> BACKEND_URL \o <<"/chat">>,
                   json |-> payload, timeout |-> CHAT_TIMEOUT, out |-> outcome]
          exc == IF outcome.kind = "raise" THEN outcome.exc
                 ELSE IF RaiseForStatus(outcome.status) THEN "HTTPError"
                 ELSE "none"
          h == FirstHandler(exc, <<"HTTPError", "RequestException">>)
      IN  CASE exc = "none" ->
                 Returned([ok |-> TRUE,
                           data |-> IF outcome.body.parses
                                    THEN outcome.body.json
                                    ELSE JObj([NoFields EXCEPT
                                            !["raw"] = [type |-> "string",
                                                        s |-> outcome.body.text]])],
                          <<call>>)
            [] exc # "none" /\ h = 1 ->
                 Returned([ok |-> FALSE,
                           error |-> IF outcome.kind = "response"
                                     THEN <<"HTTP ", outcome.status, ": ", outcome.body.text>>
                                     ELSE <<"HTTP ", "?", ": ", outcome.exc>>],
                          <<call>>)
            [] exc # "none" /\ h = 2 ->
                 Returned([ok |-> FALSE,
                           error |-> <<"Falha de conexão com o backend: ", exc>>],
                          <<call>>)
            [] OTHER -> Raised(exc, <<call>>)

\* json.loads on the text of the "Documentos (JSON)" area
JsonLoads(text) ==
    LET t == Strip(text)
    IN  CASE t = <<"[", "]">> -> Returned(JVal("array", "[]"), <<>>)
          [] t = <<"[", "{doc}", "]">> -> Returned(JVal("array", "[{doc}]"), <<>>)
          [] OTHER -> Raised("ValueError", <<>>)

\* ------------------------------------------------------------- widgets
\* What the user may have typed or selected when a button is pressed.
Questions == SeqsUpTo({" ", "q"}, MaxQLen)

Ks == {K_MIN, K_DEFAULT}

Namespaces == {"", "ns"}

DocsTexts == {<<>>, <<" ">>, <<"{", "bad">>, <<"[", "]">>, <<" ", "[", "{doc}", "]">>}

\* File names, one token per character or run of letters. The uploader's
\* extension filter belongs to the widget toolkit and is not modelled.
FileNames == {<<"a">>, <<"a", ".">>, <<".", "pdf">>, <<"a", ".", "pdf">>,
              <<"a", ".", "b", ".", "pdf">>}

Selections == SeqsUpTo(FileNames, MaxFiles)

HealthOutcomes ==
    {Response(st, TextBody("")) : st \in Statuses}
        \cup {Raise(exc) : exc \in TransportFailures}

\* ------------------------------------------------------------- state
VARIABLES
    button,          \* the button whose handler runs in this run, or "none"
    pc,              \* "idle", "sleep" (health result on show), "upload", "done"
    widgets,         \* the widget values the running handler read
    uploaded_files,  \* the uploader's selection the running handler read
    i,               \* files of the selection the upload loop has handled
    enviados,        \* keys uploaded in this run
    falhas,          \* <<name, reason>> of the uploads that failed in this run
    uuids,           \* identifiers uuid4 has generated so far
    calls,           \* calls made to the backend and the storage in this run
    ret,             \* the helper function called in this run and its value
    screen,          \* elements the handler has put on the page in this run
    crashed          \* the exception that ended the run unhandled, or "none"

vars == <<button, pc, widgets, uploaded_files, i, enviados, falhas, uuids, calls, ret,
          screen, crashed>>

NoWidgets == [pergunta |-> <<>>, k |-> K_DEFAULT, namespace |-> "", docs_json |-> <<>>]

NoRet == [fn |-> "none", args |-> <<>>, val |-> None]

Elem(w, msg) == [w |-> w, msg |-> msg]

Init ==
    /\ button = "none"
    /\ pc = "idle"
    /\ widgets = NoWidgets
    /\ uploaded_files = <<>>
    /\ i = 0
    /\ enviados = <<>>
    /\ falhas = <<>>
    /\ uuids = 0
    /\ calls = <<>>
    /\ ret = NoRet
    /\ screen = <<>>
    /\ crashed = "none"

\* A new run of the script: the page of the previous run is gone.
Rerun ==
    /\ pc = "done"
    /\ button' = "none"
    /\ pc' = "idle"
    /\ widgets' = NoWidgets
    /\ uploaded_files' = <<>>
    /\ i' = 0
    /\ enviados' = <<>>
    /\ falhas' = <<>>
    /\ calls' = <<>>
    /\ ret' = NoRet
    /\ screen' = <<>>
    /\ crashed' = "none"
    /\ UNCHANGED uuids

\* ------------------------------------------------------------- server check
VerificarServidor ==
    /\ pc = "idle"
    /\ button' = "Verificar Servidor de IA"
    /\ \E outcome \in HealthOutcomes :
         LET r == check_health_server(outcome)
         IN  /\ calls' = r.calls
             /\ IF r.raised # "none"
                THEN /\ crashed' = r.raised
                     /\ pc' = "done"
                     /\ UNCHANGED <<ret, screen>>
                ELSE /\ ret' = [fn |-> "check_health_server", args |-> <<>>, val |-> r.val]
                     /\ screen' = IF r.val
                                  THEN <<Elem("success", <<"Servidor OK">>)>>
                                  ELSE <<Elem("error", <<"Servidor Indisponível">>)>>
                     /\ pc' = "sleep"
                     /\ UNCHANGED crashed
    /\ UNCHANGED <<widgets, uploaded_files, i, enviados, falhas, uuids>>

\* After time.sleep(5): placeholder.empty()
VerificarServidorFim ==
    /\ pc = "sleep"
    /\ screen' = <<>>
    /\ pc' = "done"
    /\ UNCHANGED <<button, widgets, uploaded_files, i, enviados, falhas, uuids, calls, ret, crashed>>

\* ------------------------------------------------------------- storage check
TestarAcessoS3 ==
    /\ pc = "idle"
    /\ button' = "Testar acesso ao S3"
    /\ \E outcome \in S3Outcomes :
         LET r == check_s3_access(outcome)
         IN  /\ calls' = r.calls
             /\ IF r.raised # "none"
                THEN /\ crashed' = r.raised
                     /\ UNCHANGED <<ret, screen>>
                ELSE /\ ret' = [fn |-> "check_s3_access", args |-> <<>>, val |-> r.val]
                     /\ screen' = IF r.val[1]
                                  THEN <<Elem("success", r.val[2])>>
                                  ELSE <<Elem("error", r.val[2])>>
                     /\ UNCHANGED crashed
    /\ pc' = "done"
    /\ UNCHANGED <<widgets, uploaded_files, i, enviados, falhas, uuids>>

\* ------------------------------------------------------------- upload
\* key = f"{PREFIX_BASE}/{s3_safe_key(f.name)}", with the n-th identifier
UploadKey(name, n) == <<PREFIX_BASE, "/">> \o s3_safe_key(name, Uuid4Hex(n))

\* Variant of UploadClauses: no catch-all clause
UploadClausesNoCatchAll == <<"NoCredentialsError", "EndpointConnectionError", "ClientError">>

UploadClauses == <<"NoCredentialsError", "EndpointConnectionError", "ClientError", "Exception">>

\* The reason recorded in falhas by the h-th except clause
Motivo(h, exc) ==
    CASE h = 1 -> <<"NoCredentialsError (credenciais ausentes)">>
      [] h = 2 -> <<"EndpointConnectionError: ", exc>>
      [] h = 3 -> <<"Code - Message", exc>>
      [] OTHER -> <<"", exc>>

\* The st.error of the h-th except clause
UploadErro(h, name, exc) ==
    CASE h = 1 -> Elem("error", <<"Credenciais da AWS não disponíveis.">>)
      [] h = 2 -> Elem("error", <<"Falha de conexão com o endpoint S3: ", exc>>)
      [] h = 3 -> Elem("error", <<"Erro do cliente S3 ao enviar ", name, exc>>)
      [] OTHER -> Elem("error", <<"Erro ao enviar ", name, exc>>)

\* The button: an empty selection is refused, any other starts the loop.
EnviarParaS3 ==
    /\ pc = "idle"
    /\ button' = "Enviar para S3"
    /\ \E files \in Selections :
         /\ uuids + Len(files) <= MaxUuid
         /\ uploaded_files' = files
         /\ IF files = <<>>
            THEN /\ screen' = <<Elem("warning", <<"Nenhum arquivo selecionado.">>)>>
                 /\ pc' = "done"
            ELSE /\ screen' = <<>>
                 /\ pc' = "upload"
    /\ i' = 0
    /\ enviados' = <<>>
    /\ falhas' = <<>>
    /\ UNCHANGED <<widgets, uuids, calls, ret, crashed>>

\* One turn of "for f in uploaded_files"
UploadArquivo ==
    /\ pc = "upload"
    /\ i < Len(uploaded_files)
    /\ \E outcome \in S3Outcomes :
         LET name == uploaded_files[i + 1]
             key == UploadKey(name, uuids + 1)
             call == [api |-> "upload_fileobj", file |-> i + 1, bucket |-> BUCKET_NAME,
                      key |-> key, content_type |-> "application/pdf", out |-> outcome]
             h == FirstHandler(outcome.exc, UploadClauses)
         IN  /\ calls' = Append(calls, call)
             /\ IF outcome.kind = "return"
                THEN /\ enviados' = Append(enviados, key)
                     /\ screen' = screen \o <<Elem("progress", <<"100">>),
                                              Elem("text", <<"Concluído">>),
                                              Elem("success", <<"Enviado: s3://", BUCKET_NAME, key>>)>>
                     /\ i' = i + 1
                     /\ UNCHANGED <<falhas, crashed, pc>>
                ELSE IF h = 0
                THEN /\ crashed' = outcome.exc
                     /\ pc' = "done"
                     /\ UNCHANGED <<enviados, falhas, screen, i>>
                ELSE /\ falhas' = Append(falhas, <<name, Motivo(h, outcome.exc)>>)
                     /\ screen' = Append(screen, UploadErro(h, name, outcome.exc))
                     /\ i' = i + 1
                     /\ UNCHANGED <<enviados, crashed, pc>>
    /\ uuids' = uuids + 1
    /\ UNCHANGED <<button, widgets, uploaded_files, ret>>

\* "Resumo": the two lists, after the loop
UploadResumo ==
    /\ pc = "upload"
    /\ i = Len(uploaded_files)
    /\ screen' = screen
                  \o (IF enviados # <<>>
                      THEN <<Elem("info", <<"Arquivos enviados com sucesso:">>)>>
                              \o [j \in 1..Len(enviados) |->
                                      Elem("write", <<"- s3://", BUCKET_NAME, enviados[j]>>)]
                      ELSE <<>>)
                  \o (IF falhas # <<>>
                      THEN <<Elem("warning", <<"Falhas:">>)>>
                              \o [j \in 1..Len(falhas) |->
                                      Elem("write", <<"- ", falhas[j][1], falhas[j][2]>>)]
                      ELSE <<>>)
    /\ pc' = "done"
    /\ UNCHANGED <<button, widgets, uploaded_files, i, enviados, falhas, uuids, calls, ret, crashed>>

\* "Atualizar base de conhecimento": pass
AtualizarBase ==
    /\ pc = "idle"
    /\ button' = "Atualizar base de conhecimento"
    /\ pc' = "done"
    /\ UNCHANGED <<widgets, uploaded_files, i, enviados, falhas, uuids, calls, ret,
                   screen, crashed>>

\* ------------------------------------------------------------- question
\* Variant of LerDocumentos: the text that failed to parse is passed on
LerDocumentosKeepsText(docs_json) ==
    IF Strip(docs_json) # <<>>
    THEN LET r == JsonLoads(docs_json)
         IN  IF r.raised = "none"
             THEN [documentos |-> r.val, screen |-> <<>>]
             ELSE [documentos |-> JVal("string", "text"),
                   screen |-> <<Elem("warning", <<"Documentos inválidos: ", r.raised>>)>>]
    ELSE [documentos |-> None, screen |-> <<>>]

\* documentos, and the warning when the text does not parse
LerDocumentos(docs_json) ==
    IF Strip(docs_json) # <<>>
    THEN LET r == JsonLoads(docs_json)
         IN  IF r.raised = "none"
             THEN [documentos |-> r.val, screen |-> <<>>]
             ELSE [documentos |-> None,
                   screen |-> <<Elem("warning", <<"Documentos inválidos: ", r.raised>>)>>]
    ELSE [documentos |-> None, screen |-> <<>>]

\* namespace or None
NamespaceArg(text) == IF text # "" THEN JVal("string", text) ELSE None

\* The rendering of the value perguntar_backend returned
MostrarResposta(resposta) ==
    IF resposta.ok
    THEN LET data == resposta.data
         IN  IF data.type # "object"
             THEN [screen |-> <<>>, crashed |-> "AttributeError"]
             ELSE
               LET answer == Or(Or(Or(Get(data, "answer"), Get(data, "resposta")),
                                   Get(data, "raw")), data)
                   fontes == Or(Get(data, "sources"), Get(data, "fontes"))
               IN  [screen |-> <<Elem("markdown", <<"### Resposta:">>),
                                 IF answer.type \in {"object", "array"}
                                 THEN Elem("json", answer)
                                 ELSE Elem("write", answer)>>
                                 \o (IF Truthy(fontes)
                                     THEN <<Elem("markdown", <<"### Fontes:">>),
                                            Elem("json", fontes)>>
                                     ELSE <<>>),
                    crashed |-> "none"]
    ELSE [screen |-> <<Elem("error", resposta.error)>>, crashed |-> "none"]

Enviar ==
    /\ pc = "idle"
    /\ button' = "Enviar"
    /\ \E pergunta \in Questions, k \in Ks, namespace \in Namespaces,
          docs_json \in DocsTexts, outcome \in HttpOutcomes :
         LET docs == LerDocumentos(docs_json)
             args == [pergunta |-> pergunta, k |-> k,
                      namespace |-> NamespaceArg(namespace),
                      documentos |-> docs.documentos]
             r == perguntar_backend(args.pergunta, args.k, args.namespace,
                                    args.documentos, outcome)
             shown == MostrarResposta(r.val)
         IN  /\ widgets' = [pergunta |-> pergunta, k |-> k, namespace |-> namespace,
                            docs_json |-> docs_json]
             /\ calls' = r.calls
             /\ IF r.raised # "none"
                THEN /\ crashed' = r.raised
                     /\ screen' = docs.screen
                     /\ UNCHANGED ret
                ELSE /\ ret' = [fn |-> "perguntar_backend", args |-> args, val |-> r.val]
                     /\ screen' = docs.screen \o shown.screen
                     /\ crashed' = shown.crashed
    /\ pc' = "done"
    /\ UNCHANGED <<uploaded_files, i, enviados, falhas, uuids>>

\* ------------------------------------------------------------- specification
Next ==
    \/ VerificarServidor
    \/ VerificarServidorFim
    \/ TestarAcessoS3
    \/ EnviarParaS3
    \/ UploadArquivo
    \/ UploadResumo
    \/ AtualizarBase
    \/ Enviar
    \/ Rerun

Spec == Init /\ [][Next]_vars

\* ============================================================= claims
\* What the claims speak of, stated apart from the definitions above.
NonBlank(q) == \E j \in 1..Len(q) : q[j] \notin Whitespace

\* p is q without its leading and trailing whitespace
IsStripOf(p, q) ==
    /\ p # <<>>
    /\ p[1] \notin Whitespace
    /\ p[Len(p)] \notin Whitespace
    /\ \E a \in 0..Len(q) :
         /\ a + Len(p) <= Len(q)
         /\ p = SubSeq(q, a + 1, a + Len(p))
         /\ \A j \in (1..a) \cup ((a + Len(p) + 1)..Len(q)) : q[j] \in Whitespace

Is2xx(status) == 200 <= status /\ status < 300

ByEnviar == button = "Enviar"

ByUpload == button = "Enviar para S3"

\* "." and the text after the last "." of the name; empty without a "."
SuffixOf(name) ==
    IF \E j \in 1..Len(name) : name[j] = "."
    THEN LET p == CHOOSE j \in 1..Len(name) :
                     /\ name[j] = "."
                     /\ \A h \in (j + 1)..Len(name) : name[h] # "."
         IN  <<".">> \o SubSeq(name, p + 1, Len(name))
    ELSE <<>>

\* ------------------------------------------------------------- C1
\* C1: in a run of "Enviar para S3" with a non-empty selection, the files are
\* attempted one upload_fileobj call each, in selection order; the calls that
\* returned are exactly the keys of enviados, the calls that raised exactly
\* the names (with a reason) of falhas, both in order; no exception leaves
\* the handler, so a failure never stops the loop, and after the loop
\* len(enviados) + len(falhas) = n.
C1_UploadAccounting ==
    (ByUpload /\ uploaded_files # <<>>) =>
        LET ok == SelectSeq(calls, LAMBDA c : c.out.kind = "return")
            ko == SelectSeq(calls, LAMBDA c : c.out.kind = "raise")
        IN  /\ crashed = "none"
            /\ pc \in {"upload", "done"}
            /\ Len(calls) = i
            /\ \A j \in 1..Len(calls) :
                 calls[j].api = "upload_fileobj" /\ calls[j].file = j
            /\ Len(enviados) = Len(ok)
            /\ \A j \in 1..Len(ok) : enviados[j] = ok[j].key
            /\ Len(falhas) = Len(ko)
            /\ \A j \in 1..Len(ko) :
                 /\ falhas[j][1] = uploaded_files[ko[j].file]
                 /\ Len(falhas[j][2]) >= 1
            /\ Len(enviados) + Len(falhas) = i
            /\ (pc = "done" => i = Len(uploaded_files))

\* A finished run of two files where the first upload raised and the second returned.
C1_Witness ==
    /\ ByUpload
    /\ pc = "done"
    /\ Len(uploaded_files) = 2
    /\ Len(calls) = 2
    /\ calls[1].out.kind = "raise"
    /\ calls[2].out.kind = "return"
    /\ Len(enviados) = 1
    /\ Len(falhas) = 1

\* ------------------------------------------------------------- C2
NonEmptyArg(v) == v.type # "null" /\ v.s \notin {"", "[]"}

\* C2: for a non-blank question, a run of "Enviar" makes exactly one POST to
\* the /chat route; its JSON body holds the stripped question and k, holds
\* namespace exactly when the namespace argument is a non-empty string and
\* documents exactly when the documents argument is non-empty, and no other key.
C2_ChatPayload ==
    (ByEnviar /\ NonBlank(widgets.pergunta)) =>
        /\ ret.fn = "perguntar_backend"
        /\ ret.args.pergunta = widgets.pergunta
        /\ Len(calls) = 1
        /\ calls[1].api = "requests.post"
        /\ calls[1].url[Len(calls[1].url)] = "/chat"
        /\ LET body == calls[1].json
               a == ret.args
           IN  /\ DOMAIN body =
                     {"question", "k"}
                        \cup (IF NonEmptyArg(a.namespace) THEN {"namespace"} ELSE {})
                        \cup (IF NonEmptyArg(a.documentos) THEN {"documents"} ELSE {})
               /\ IsStripOf(body.question, a.pergunta)
               /\ body.k = a.k
               /\ ("namespace" \in DOMAIN body => body.namespace = a.namespace)
               /\ ("documents" \in DOMAIN body => body.documents = a.documentos)

\* A question with whitespace around it, sent with all four keys.
C2_Witness ==
    /\ ByEnviar
    /\ widgets.pergunta \in {<<" ", "q">>, <<"q", " ">>}
    /\ Len(calls) = 1
    /\ DOMAIN calls[1].json = {"question", "k", "namespace", "documents"}
    /\ calls[1].json.question = <<"q">>

\* ------------------------------------------------------------- C3
\* The two shapes perguntar_backend returns
OneOfTwoShapes(v) ==
    \/ DOMAIN v = {"ok", "data"} /\ v.ok = TRUE
    \/ DOMAIN v = {"ok", "error"} /\ v.ok = FALSE

IsHttpError(v, out) ==
    /\ ~v.ok
    /\ Len(v.error) = 4
    /\ v.error[1] = "HTTP "
    /\ v.error[2] = out.status
    /\ v.error[4] = out.body.text

IsConnectionFailure(v) ==
    /\ ~v.ok
    /\ Len(v.error) = 2
    /\ v.error[1] = "Falha de conexão com o backend: "

\* C3 as stated: perguntar_backend always returns one of the two shapes; a 2xx
\* gives ok=True, every other status ok=False with "HTTP <status>:" and the
\* body, a transport failure ok=False with "Falha de conexão com o backend:".
C3_AsStated ==
    ByEnviar =>
        /\ ret.fn = "perguntar_backend"
        /\ OneOfTwoShapes(ret.val)
        /\ (calls # <<>> =>
              LET out == calls[1].out
              IN  /\ (out.kind = "response" /\ Is2xx(out.status) => ret.val.ok)
                  /\ (out.kind = "response" /\ ~Is2xx(out.status)
                        => IsHttpError(ret.val, out))
                  /\ (out.kind = "raise" => IsConnectionFailure(ret.val)))

\* C3 (amended): perguntar_backend always returns one of the two shapes; a 4xx
\* or 5xx status gives ok=False with "HTTP <status>:" and the body, every
\* other status (2xx, and a 1xx or 3xx handed back) gives ok=True, a transport
\* failure gives ok=False with "Falha de conexão com o backend:".
C3_ErrorMapping ==
    ByEnviar =>
        /\ ret.fn = "perguntar_backend"
        /\ crashed \notin {"HTTPError", "ConnectionError", "Timeout"}
        /\ OneOfTwoShapes(ret.val)
        /\ (calls # <<>> =>
              LET out == calls[1].out
              IN  /\ (out.kind = "response" /\ out.status < 400 => ret.val.ok)
                  /\ (out.kind = "response" /\ out.status >= 400
                        => IsHttpError(ret.val, out))
                  /\ (out.kind = "raise" => IsConnectionFailure(ret.val)))

\* A 304 handed back by the backend is returned as a success.
C3_Witness ==
    /\ ByEnviar
    /\ Len(calls) = 1
    /\ calls[1].out.kind = "response"
    /\ calls[1].out.status = 304
    /\ ret.val.ok

\* ------------------------------------------------------------- C4
\* C4: for an empty or all-whitespace question, perguntar_backend returns
\* {ok: False, error: "Pergunta vazia."} and no request is sent, whatever k,
\* namespace and documents are.
C4_EmptyQuestion ==
    (ByEnviar /\ ~NonBlank(widgets.pergunta)) =>
        /\ calls = <<>>
        /\ crashed = "none"
        /\ ret.fn = "perguntar_backend"
        /\ DOMAIN ret.val = {"ok", "error"}
        /\ ret.val.ok = FALSE
        /\ Len(ret.val.error) = 1
        /\ ret.val.error[1] = "Pergunta vazia."

\* A whitespace-only question asked with a namespace and documents.
C4_Witness ==
    /\ ByEnviar
    /\ widgets.pergunta = <<" ", " ">>
    /\ widgets.namespace = "ns"
    /\ ret.fn = "perguntar_backend"
    /\ NonEmptyArg(ret.args.documentos)
    /\ calls = <<>>

\* ------------------------------------------------------------- C5
\* C5: for every 2xx response whose body is valid JSON of any type, the
\* "Enviar" handler reaches the "### Resposta:" step and ends without an
\* unhandled exception.
C5_RendersAnyJson ==
    (/\ ByEnviar
     /\ calls # <<>>
     /\ calls[1].out.kind = "response"
     /\ Is2xx(calls[1].out.status)
     /\ calls[1].out.body.parses) =>
        /\ crashed = "none"
        /\ \E j \in 1..Len(screen) :
             screen[j].w = "markdown" /\ screen[j].msg = <<"### Resposta:">>

\* ------------------------------------------------------------- C6
\* The message check_s3_access gives for an exception, by its class, in order
S3MessageFor(exc) ==
    IF IsInstance(exc, "NoCredentialsError") THEN "Credenciais AWS ausentes."
    ELSE IF IsInstance(exc, "EndpointConnectionError") THEN "Falha ao conectar no endpoint S3"
    ELSE IF IsInstance(exc, "ClientError") THEN "ClientError ao acessar bucket: "
    ELSE "Erro inesperado no S3: "

\* C6: check_s3_access makes exactly one head_bucket call and never raises;
\* it returns (True, "Acesso ao bucket OK.") exactly when head_bucket
\* returned, and otherwise (False, message) with a non-empty message chosen by
\* the exception's class: NoCredentialsError, EndpointConnectionError,
\* ClientError, any other; the page shows the message as success or error.
C6_S3Access ==
    button = "Testar acesso ao S3" =>
        /\ crashed = "none"
        /\ ret.fn = "check_s3_access"
        /\ Len(calls) = 1
        /\ calls[1].api = "head_bucket"
        /\ LET out == calls[1].out
               ok == ret.val[1]
               msg == ret.val[2]
           IN  /\ ok = (out.kind = "return")
               /\ Len(msg) >= 1
               /\ msg[1] # ""
               /\ (ok => msg = <<"Acesso ao bucket OK.">>)
               /\ (~ok => msg[1] = S3MessageFor(out.exc))
               /\ Len(screen) = 1
               /\ screen[1].w = (IF ok THEN "success" ELSE "error")
               /\ screen[1].msg = msg

\* head_bucket raised an exception that only the last clause catches.
C6_Witness ==
    /\ button = "Testar acesso ao S3"
    /\ Len(calls) = 1
    /\ calls[1].out.kind = "raise"
    /\ calls[1].out.exc = "ReadTimeoutError"
    /\ ret.fn = "check_s3_access"
    /\ ret.val[1] = FALSE

\* ------------------------------------------------------------- C7
\* C7: check_health_server issues exactly one GET to the /health route and
\* returns True exactly when a response with status 200 arrived; any other
\* status and any request exception give False; while the result is on show
\* the page holds "Servidor OK" exactly when it is True and "Servidor
\* Indisponível" otherwise.
C7_HealthCheck ==
    button = "Verificar Servidor de IA" =>
        /\ crashed = "none"
        /\ ret.fn = "check_health_server"
        /\ Len(calls) = 1
        /\ calls[1].api = "requests.get"
        /\ calls[1].url[Len(calls[1].url)] = "/health"
        /\ ret.val = (calls[1].out.kind = "response" /\ calls[1].out.status = 200)
        /\ (pc = "sleep" =>
              /\ Len(screen) = 1
              /\ screen[1].w = (IF ret.val THEN "success" ELSE "error")
              /\ screen[1].msg =
                    (IF ret.val THEN <<"Servidor OK">> ELSE <<"Servidor Indisponível">>))

\* A 204 arrived and the page shows the server as unavailable.
C7_Witness ==
    /\ button = "Verificar Servidor de IA"
    /\ pc = "sleep"
    /\ Len(calls) = 1
    /\ calls[1].out.kind = "response"
    /\ calls[1].out.status = 204
    /\ ret.val = FALSE
    /\ screen[1].w = "error"

\* ------------------------------------------------------------- C8
\* The member of data under key is there and is truthy
MemberTruthy(data, key) ==
    /\ data.fields[key] # Absent
    /\ data.fields[key].s \notin {"", "[]"}

\* The first of the keys, in order, whose member is truthy; 0 when none is
FirstTruthy(data, keys) ==
    IF \E j \in 1..Len(keys) : MemberTruthy(data, keys[j])
    THEN CHOOSE j \in 1..Len(keys) :
            /\ MemberTruthy(data, keys[j])
            /\ \A h \in 1..(j - 1) : ~MemberTruthy(data, keys[h])
    ELSE 0

\* The page without the warning about the documents, when it has one
AfterWarning(page) ==
    IF page # <<>> /\ page[1].w = "warning" THEN Tail(page) ELSE page

\* C8: on a successful response whose data is a JSON object, the answer shown
\* is the first truthy of data["answer"], data["resposta"], data["raw"], and
\* the whole object when none is truthy; the sources are the first truthy of
\* data["sources"], data["fontes"], and "### Fontes:" is rendered exactly
\* when there is one.
C8_AnswerSelection ==
    (/\ ByEnviar
     /\ ret.fn = "perguntar_backend"
     /\ ret.val.ok
     /\ ret.val.data.type = "object") =>
        LET data == ret.val.data
            page == AfterWarning(screen)
            a == FirstTruthy(data, <<"answer", "resposta", "raw">>)
            f == FirstTruthy(data, <<"sources", "fontes">>)
        IN  /\ crashed = "none"
            /\ Len(page) = (IF f = 0 THEN 2 ELSE 4)
            /\ page[1].w = "markdown"
            /\ page[1].msg = <<"### Resposta:">>
            /\ page[2].w \in {"json", "write"}
            /\ IF a = 0
               THEN page[2].msg = data
               ELSE /\ page[2].msg.type = data.fields[<<"answer", "resposta", "raw">>[a]].type
                    /\ page[2].msg.s = data.fields[<<"answer", "resposta", "raw">>[a]].s
            /\ (f # 0 =>
                  /\ page[3].w = "markdown"
                  /\ page[3].msg = <<"### Fontes:">>
                  /\ page[4].w = "json"
                  /\ page[4].msg.type = data.fields[<<"sources", "fontes">>[f]].type
                  /\ page[4].msg.s = data.fields[<<"sources", "fontes">>[f]].s)

\* answer is there but empty, resposta and raw are truthy, only fontes is truthy:
\* resposta and fontes are shown.
C8_Witness ==
    /\ ByEnviar
    /\ ret.fn = "perguntar_backend"
    /\ ret.val.ok
    /\ ret.val.data.type = "object"
    /\ ret.val.data.fields["answer"] = [type |-> "string", s |-> ""]
    /\ ret.val.data.fields["resposta"].s = "resposta"
    /\ ret.val.data.fields["raw"].s = "raw"
    /\ ret.val.data.fields["sources"] = [type |-> "array", s |-> "[]"]
    /\ ret.val.data.fields["fontes"].s = "fontes"
    /\ Len(screen) = 4
    /\ screen[2].msg.s = "resposta"
    /\ screen[4].msg.s = "fontes"

\* ------------------------------------------------------------- C9
\* Texts of the documents area that are not blank and are not JSON
NotJsonTexts == {t \in DocsTexts : t = <<"{", "bad">>}

WarnsOfDocuments ==
    /\ screen # <<>>
    /\ screen[1].w = "warning"
    /\ screen[1].msg[1] = "Documentos inválidos: "

OnePostWithoutDocuments ==
    /\ Len(calls) = 1
    /\ calls[1].api = "requests.post"
    /\ "documents" \notin DOMAIN calls[1].json

\* C9 as stated: when the documents text is non-blank and not valid JSON, the
\* handler warns "Documentos inválidos" and still sends the question, with no
\* documents key in the payload.
C9_AsStated ==
    (ByEnviar /\ widgets.docs_json \in NotJsonTexts) =>
        /\ WarnsOfDocuments
        /\ OnePostWithoutDocuments

\* C9 (amended): when the documents text is non-blank and not valid JSON, the
\* handler warns "Documentos inválidos" and still calls perguntar_backend,
\* with no documents; for a non-blank question that is exactly one POST with
\* no documents key, for a blank question no request at all.
C9_InvalidDocuments ==
    (ByEnviar /\ widgets.docs_json \in NotJsonTexts) =>
        /\ WarnsOfDocuments
        /\ ret.fn = "perguntar_backend"
        /\ ret.args.documentos = None
        /\ (NonBlank(widgets.pergunta) => OnePostWithoutDocuments)
        /\ (~NonBlank(widgets.pergunta) => calls = <<>>)

\* Invalid documents, a question, the warning and the POST.
C9_Witness ==
    /\ ByEnviar
    /\ widgets.docs_json \in NotJsonTexts
    /\ NonBlank(widgets.pergunta)
    /\ WarnsOfDocuments
    /\ OnePostWithoutDocuments

\* ------------------------------------------------------------- C10
\* C10: every key passed to upload_fileobj is "uploads/", then an identifier
\* generated for this file alone (32 hexadecimal digits), then the suffix of
\* the file's name and nothing else of it; the keys of enviados are keys
\* that were uploaded, those whose upload returned.
C10_ObjectKeys ==
    ByUpload =>
        /\ \A j \in 1..Len(calls) :
             LET c == calls[j]
                 name == uploaded_files[c.file]
             IN  /\ c.api = "upload_fileobj"
                 /\ Len(c.key) = 3 + Len(SuffixOf(name))
                 /\ c.key[1] = "uploads"
                 /\ c.key[2] = "/"
                 /\ c.key[3].digits = 32
                 /\ c.key[3].hex = uuids - Len(calls) + j
                 /\ SubSeq(c.key, 4, Len(c.key)) = SuffixOf(name)
                 /\ (c.out.kind = "return" <=>
                        \E e \in 1..Len(enviados) : enviados[e] = c.key)
        /\ \A j, h \in 1..Len(calls) : j # h => calls[j].key # calls[h].key
        /\ \A e \in 1..Len(enviados) :
             \E j \in 1..Len(calls) :
                calls[j].key = enviados[e] /\ calls[j].out.kind = "return"

\* Two files uploaded, one with two dots in its name and one with none.
C10_Witness ==
    /\ ByUpload
    /\ pc = "done"
    /\ uploaded_files = << <<"a", ".", "b", ".", "pdf">>, <<"a">> >>
    /\ Len(enviados) = 2
    /\ enviados[1][Len(enviados[1])] = "pdf"
    /\ Len(enviados[2]) = 3

====
